---- MODULE Spec2Model ----
(***************************************************************************)
(* gdnsd: the multifo plugin (configuration load and failover resolve) and *)
(* the ltarena pooled allocator, as state machines.                        *)
(***************************************************************************)
EXTENDS Integers, Sequences, FiniteSets, TLC

VARIABLES
    config,        \* the plugin's configuration stanza: a sequence of resource options
    phase,         \* "start" | "loading" | "loaded" | "fatal" (log_fatal ended the process)
    resources,     \* static res_t* resources, filled by config_res
    residx,        \* the residx counter vscf_hash_iterate hands to config_res
    v4_max,        \* static unsigned v4_max
    v6_max,        \* static unsigned v6_max
    num_mons,      \* number of monitor indices gdnsd_mon_addr has handed out
    dyn_addr_max,  \* what gdnsd_dyn_addr_max was called with (called = FALSE before)
    call,          \* the last plugin_multifo_resolve call: its inputs, sink and return values
    mon_sttl_tbl,  \* the monitor's state+TTL table, by monitor index (<<>> before it runs)
    thr,           \* the frame of a plugin_multifo_resolve call in progress on a thread
    arenas,        \* struct ltarena objects, by handle
    heap,          \* the pools xcalloc returned, by pool id
    regions,       \* every region lta_malloc has returned
    frees          \* bookkeeping of free(): invalid frees seen

cvars == <<mon_sttl_tbl, thr>>
mvars == <<config, phase, resources, residx, v4_max, v6_max, num_mons, dyn_addr_max, call,
           cvars>>
avars == <<arenas, heap, regions, frees>>
vars == <<mvars, avars>>

----------------------------------------------------------------------------
\* Bounds of the model

\* addresses per address set in the configurations resolve is run on
MaxAddrs == 3
\* addresses per address set in the configurations only load is run on
MaxLoadAddrs == 10

\* struct ltarena handles the callers create
MaxArenas == 2
\* lta_malloc calls on the one arena of SpecMalloc
MaxAllocs == 18
\* lta_malloc calls, over all arenas, where arenas are merged
MaxMergeAllocs == 10
\* lta_malloc calls, over both arenas, where one arena is merged into another
MaxPairAllocs == 26
\* lta_malloc calls of a size below MAX_OBJ on the one arena of SpecMalloc
MaxOdd == 1

\* addresses per address set where resolve runs while the monitor updates its table
MaxRaceAddrs == 2

Min(a, b) == IF a < b THEN a ELSE b
Max(a, b) == IF a > b THEN a ELSE b

----------------------------------------------------------------------------
\* State+TTL values and the result sink (collaborators of the plugin)

GDNSD_STTL_TTL_MAX == 268435455

Sttl(down, ttl) == [down |-> down, ttl |-> ttl]

\* min2: TTL the smaller of the two, down if either is down
gdnsd_sttl_min2(a, b) == [down |-> a.down \/ b.down, ttl |-> Min(a.ttl, b.ttl)]

\* min over the table values at idx[1..len], starting from "up, max TTL"
RECURSIVE gdnsd_sttl_min(_, _, _)
gdnsd_sttl_min(sttl_tbl, idx, len) ==
    IF len = 0 THEN Sttl(FALSE, GDNSD_STTL_TTL_MAX)
    ELSE gdnsd_sttl_min2(gdnsd_sttl_min(sttl_tbl, idx, len - 1), sttl_tbl[idx[len]])

EmptyResult == [v4 |-> <<>>, v6 |-> <<>>]

gdnsd_result_add_anysin(result, addr) ==
    IF addr.sa_family = "AF_INET6"
    THEN [result EXCEPT !.v6 = Append(@, addr)]
    ELSE [result EXCEPT !.v4 = Append(@, addr)]

gdnsd_result_wipe_v4(result) == [result EXCEPT !.v4 = <<>>]
gdnsd_result_wipe_v6(result) == [result EXCEPT !.v6 = <<>>]

----------------------------------------------------------------------------
\* Configuration values (the vscf tree, after inheritance of the three parameters)

\* an address string: its text decides whether and as what it parses
AddrText(form, n) == [simple |-> TRUE, form |-> form, n |-> n]
NonSimpleAddr == [simple |-> FALSE, form |-> "junk", n |-> 0]

\* gdnsd_anysin_getaddrinfo: err # 0 when the text is no address
gdnsd_anysin_getaddrinfo(txt) ==
    CASE txt.form = "dotted" -> [err |-> 0, addr |-> [sa_family |-> "AF_INET", host |-> txt.n]]
      [] txt.form = "colon"  -> [err |-> 0, addr |-> [sa_family |-> "AF_INET6", host |-> txt.n]]
      [] OTHER               -> [err |-> 1, addr |-> [sa_family |-> "AF_UNSPEC", host |-> 0]]

Absent == [present |-> FALSE, text |-> ""]
Given(text) == [present |-> TRUE, text |-> text]

\* vscf_simple_get_as_double, on the texts the model uses; the value is num/den
vscf_simple_get_as_double(text) ==
    CASE text = "0.125" -> [ok |-> TRUE, num |-> 1, den |-> 8]
      [] text = "0.25"  -> [ok |-> TRUE, num |-> 1, den |-> 4]
      [] text = "0.5"   -> [ok |-> TRUE, num |-> 1, den |-> 2]
      [] text = "0.75"  -> [ok |-> TRUE, num |-> 3, den |-> 4]
      [] text = "1.0"   -> [ok |-> TRUE, num |-> 1, den |-> 1]
      [] text = "0.0"   -> [ok |-> TRUE, num |-> 0, den |-> 1]
      [] text = "-0.5"  -> [ok |-> TRUE, num |-> 0 - 1, den |-> 2]
      [] text = "1.25"  -> [ok |-> TRUE, num |-> 5, den |-> 4]
      [] OTHER          -> [ok |-> FALSE, num |-> 0, den |-> 1]

\* vscf_simple_get_as_bool
vscf_simple_get_as_bool(text) ==
    CASE text = "true"  -> [ok |-> TRUE, val |-> TRUE]
      [] text = "false" -> [ok |-> TRUE, val |-> FALSE]
      [] OTHER          -> [ok |-> FALSE, val |-> FALSE]

NoSvcTypes == [present |-> FALSE, names |-> <<>>]
SvcTypes(names) == [present |-> TRUE, names |-> names]

\* one addrs hash: the address entries and the three parameter keys
Stanza(addrs, up_thresh, ignore_health, service_types) ==
    [addrs |-> addrs, up_thresh |-> up_thresh, ignore_health |-> ignore_health,
     service_types |-> service_types]

NoStanza == [present |-> FALSE, cfg |-> Stanza(<<>>, Absent, Absent, NoSvcTypes)]
SubStanza(s) == [present |-> TRUE, cfg |-> s]

\* one resource's options hash: addrs_v4, addrs_v6, and whatever else it holds
\* (opts.direct.addrs are the keys other than addrs_v4, addrs_v6 and the parameters)
ResOpts(name, addrs_v4, addrs_v6, direct) ==
    [name |-> name, addrs_v4 |-> addrs_v4, addrs_v6 |-> addrs_v6, direct |-> direct]

----------------------------------------------------------------------------
\* Load

DEF_UP_THRESH == [ok |-> TRUE, num |-> 1, den |-> 2]

\* ceil(v * s) for s = num/den
gdnsd_uscale_ceil(v, s) == (v * s.num + s.den - 1) \div s.den

NullAset == [present |-> FALSE, as |-> <<>>, num_svcs |-> 0, count |-> 0,
             up_thresh |-> 0, ignore_health |-> FALSE]

\* C9 mutant: the address family is not compared with the set's family
addr_setup_any_family(addr_data, num_svcs, ipv6, mons) ==
    IF ~addr_data.simple THEN [ok |-> FALSE, as |-> <<>>]
    ELSE LET r == gdnsd_anysin_getaddrinfo(addr_data) IN
         IF r.err # 0 THEN [ok |-> FALSE, as |-> <<>>]
         ELSE [ok |-> TRUE,
               as |-> <<[addr |-> r.addr,
                         indices |-> [i \in 1..num_svcs |-> mons + i - 1]]>>]

\* addr_setup for entry idx of the set, with `mons` monitors registered before it
addr_setup(addr_data, num_svcs, ipv6, mons) ==
    IF ~addr_data.simple THEN [ok |-> FALSE, as |-> <<>>]
    ELSE LET r == gdnsd_anysin_getaddrinfo(addr_data) IN
         IF r.err # 0 THEN [ok |-> FALSE, as |-> <<>>]
         ELSE IF ipv6 /\ r.addr.sa_family # "AF_INET6" THEN [ok |-> FALSE, as |-> <<>>]
         ELSE IF ~ipv6 /\ r.addr.sa_family # "AF_INET" THEN [ok |-> FALSE, as |-> <<>>]
         ELSE [ok |-> TRUE,
               as |-> <<[addr |-> r.addr,
                         indices |-> [i \in 1..num_svcs |-> mons + i - 1]]>>]

\* vscf_hash_iterate(cfg, true, addr_setup, &aid): entries 1..n, stopping at a fatal one
RECURSIVE addr_setup_all(_, _, _, _, _)
addr_setup_all(addrs, n, num_svcs, ipv6, mons) ==
    IF n = 0 THEN [ok |-> TRUE, as |-> <<>>]
    ELSE LET before == addr_setup_all(addrs, n - 1, num_svcs, ipv6, mons) IN
         IF ~before.ok THEN before
         ELSE LET this == addr_setup(addrs[n], num_svcs, ipv6, mons + (n - 1) * num_svcs) IN
              IF ~this.ok THEN [ok |-> FALSE, as |-> <<>>]
              ELSE [ok |-> TRUE, as |-> before.as \o this.as]

\* C6 mutant: the range check forgets the upper end
up_thresh_ok_no_upper(cfg) ==
    ~cfg.up_thresh.present
    \/ LET d == vscf_simple_get_as_double(cfg.up_thresh.text) IN
       d.ok /\ ~(d.num <= 0)

\* the parameter checks of config_addrs
up_thresh_ok(cfg) ==
    ~cfg.up_thresh.present
    \/ LET d == vscf_simple_get_as_double(cfg.up_thresh.text) IN
       d.ok /\ ~(d.num <= 0) /\ ~(d.num > d.den)

ignore_health_ok(cfg) ==
    ~cfg.ignore_health.present \/ vscf_simple_get_as_bool(cfg.ignore_health.text).ok

\* config_addrs: [ok, aset, mons, max] from one addrs hash
config_addrs(ipv6, cfg, mons, max) ==
    LET num_addrs == Len(cfg.addrs)
        num_svcs == IF cfg.service_types.present THEN Len(cfg.service_types.names) ELSE 1
        up_thresh == IF cfg.up_thresh.present
                     THEN vscf_simple_get_as_double(cfg.up_thresh.text)
                     ELSE DEF_UP_THRESH
        ignore_health == IF cfg.ignore_health.present
                         THEN vscf_simple_get_as_bool(cfg.ignore_health.text).val
                         ELSE FALSE
        fatal == [ok |-> FALSE, aset |-> NullAset, mons |-> mons, max |-> max]
    IN IF ~up_thresh_ok(cfg) THEN fatal
       ELSE IF ~ignore_health_ok(cfg) THEN fatal
       ELSE IF num_addrs = 0 THEN fatal
       ELSE LET set == addr_setup_all(cfg.addrs, num_addrs, num_svcs, ipv6, mons) IN
            IF ~set.ok THEN fatal
            ELSE [ok |-> TRUE,
                  aset |-> [present |-> TRUE, as |-> set.as, num_svcs |-> num_svcs,
                            count |-> num_addrs,
                            up_thresh |-> gdnsd_uscale_ceil(num_addrs, up_thresh),
                            ignore_health |-> ignore_health],
                  mons |-> mons + num_addrs * num_svcs,
                  max |-> Max(max, num_addrs)]

NullRes == [name |-> "", aset_v4 |-> NullAset, aset_v6 |-> NullAset]

\* config_auto: the family of the first address decides the set's family
config_auto(opts, mons, max4, max6) ==
    LET cfg == opts.direct
        fatal == [ok |-> FALSE, res |-> NullRes, mons |-> mons, v4_max |-> max4, v6_max |-> max6]
    IN IF Len(cfg.addrs) = 0 THEN fatal
       ELSE IF ~cfg.addrs[1].simple THEN fatal
       ELSE LET first == gdnsd_anysin_getaddrinfo(cfg.addrs[1]) IN
            IF first.err # 0 THEN fatal
            ELSE IF first.addr.sa_family = "AF_INET6"
            THEN LET r == config_addrs(TRUE, cfg, mons, max6) IN
                 [ok |-> r.ok, res |-> [name |-> opts.name, aset_v4 |-> NullAset, aset_v6 |-> r.aset],
                  mons |-> r.mons, v4_max |-> max4, v6_max |-> r.max]
            ELSE LET r == config_addrs(FALSE, cfg, mons, max4) IN
                 [ok |-> r.ok, res |-> [name |-> opts.name, aset_v4 |-> r.aset, aset_v6 |-> NullAset],
                  mons |-> r.mons, v4_max |-> r.max, v6_max |-> max6]

\* vscf_hash_iterate_const(opts, true, bad_res_opt, resname): any key left is fatal
no_bad_res_opt(opts) == Len(opts.direct.addrs) = 0

\* config_res: [ok, res, mons, v4_max, v6_max] for one resource
config_res(opts, mons, max4, max6) ==
    LET r4 == IF opts.addrs_v4.present
              THEN config_addrs(FALSE, opts.addrs_v4.cfg, mons, max4)
              ELSE [ok |-> TRUE, aset |-> NullAset, mons |-> mons, max |-> max4]
        r6 == IF opts.addrs_v6.present
              THEN config_addrs(TRUE, opts.addrs_v6.cfg, r4.mons, max6)
              ELSE [ok |-> TRUE, aset |-> NullAset, mons |-> r4.mons, max |-> max6]
        fatal == [ok |-> FALSE, res |-> NullRes, mons |-> mons, v4_max |-> max4, v6_max |-> max6]
    IN IF ~r4.ok THEN fatal
       ELSE IF ~r6.ok THEN fatal
       ELSE IF ~opts.addrs_v4.present /\ ~opts.addrs_v6.present
       THEN config_auto(opts, mons, max4, max6)
       ELSE IF ~no_bad_res_opt(opts) THEN fatal
       ELSE [ok |-> TRUE,
             res |-> [name |-> opts.name, aset_v4 |-> r4.aset, aset_v6 |-> r6.aset],
             mons |-> r6.mons, v4_max |-> r4.max, v6_max |-> r6.max]

NoCall == [made |-> FALSE, resnum |-> 0, sttl_tbl |-> <<>>, result |-> EmptyResult,
           rv |-> Sttl(FALSE, 0), v4_rv |-> Sttl(FALSE, 0), v6_rv |-> Sttl(FALSE, 0)]

NotReported == [called |-> FALSE, v4 |-> 0, v6 |-> 0]

\* no call in progress
NoThread == [pc |-> "idle"]

\* the monitor has published no table and no call is in progress
CIdle == mon_sttl_tbl = <<>> /\ thr = NoThread

\* plugin_multifo_load_config up to the iteration over the resources
plugin_multifo_load_config ==
    /\ phase = "start"
    /\ phase' = IF Len(config) > 0 THEN "loading" ELSE "loaded"
    /\ UNCHANGED <<config, resources, residx, v4_max, v6_max, num_mons, dyn_addr_max, call>>
    /\ UNCHANGED <<cvars, avars>>

\* the config_res callback for the next resource
config_res_step ==
    /\ phase = "loading"
    /\ residx < Len(config)
    /\ LET r == config_res(config[residx + 1], num_mons, v4_max, v6_max) IN
       /\ residx' = residx + 1
       /\ IF r.ok
          THEN /\ resources' = Append(resources, r.res)
               /\ num_mons' = r.mons
               /\ v4_max' = r.v4_max
               /\ v6_max' = r.v6_max
               /\ phase' = phase
          ELSE /\ phase' = "fatal"
               /\ UNCHANGED <<resources, num_mons, v4_max, v6_max>>
    /\ UNCHANGED <<config, dyn_addr_max, call>>
    /\ UNCHANGED <<cvars, avars>>

\* the end of plugin_multifo_load_config: gdnsd_dyn_addr_max(v4_max, v6_max)
load_config_done ==
    /\ phase = "loading"
    /\ residx = Len(config)
    /\ dyn_addr_max' = [called |-> TRUE, v4 |-> v4_max, v6 |-> v6_max]
    /\ phase' = "loaded"
    /\ UNCHANGED <<config, resources, residx, v4_max, v6_max, num_mons, call>>
    /\ UNCHANGED <<cvars, avars>>

----------------------------------------------------------------------------
\* Resolve

\* the running state of resolve(): rv, the sink, and the notdown counter
ResolveStart(result) == [rv |-> Sttl(FALSE, GDNSD_STTL_TTL_MAX), result |-> result, notdown |-> 0]

\* C4 mutant: a down entry is skipped even when ignore_health is set
resolve_iter_drop_down(sttl_tbl, aset, st, i) ==
    LET as == aset.as[i]
        as_sttl == gdnsd_sttl_min(sttl_tbl, as.indices, aset.num_svcs)
        rv == gdnsd_sttl_min2(st.rv, as_sttl)
    IN IF ~as_sttl.down
       THEN [rv |-> rv, result |-> gdnsd_result_add_anysin(st.result, as.addr),
             notdown |-> st.notdown + 1]
       ELSE [rv |-> rv, result |-> st.result, notdown |-> st.notdown]

\* one iteration of the loop over the entries
resolve_iter(sttl_tbl, aset, st, i) ==
    LET as == aset.as[i]
        as_sttl == gdnsd_sttl_min(sttl_tbl, as.indices, aset.num_svcs)
        rv == gdnsd_sttl_min2(st.rv, as_sttl)
    IN IF ~as_sttl.down
       THEN [rv |-> rv, result |-> gdnsd_result_add_anysin(st.result, as.addr),
             notdown |-> st.notdown + 1]
       ELSE IF aset.ignore_health
       THEN [rv |-> rv, result |-> gdnsd_result_add_anysin(st.result, as.addr),
             notdown |-> st.notdown]
       ELSE [rv |-> rv, result |-> st.result, notdown |-> st.notdown]

\* for (i = 0; i < aset->count; i++): entries 1..n folded in order
RECURSIVE resolve_loop(_, _, _, _)
resolve_loop(sttl_tbl, aset, st, n) ==
    IF n = 0 THEN st
    ELSE resolve_iter(sttl_tbl, aset, resolve_loop(sttl_tbl, aset, st, n - 1), n)

\* the fail-open loop: every entry's address appended
RECURSIVE add_all(_, _, _)
add_all(result, aset, n) ==
    IF n = 0 THEN result
    ELSE gdnsd_result_add_anysin(add_all(result, aset, n - 1), aset.as[n].addr)

\* C1 mutant: fail-open re-appends without wiping the family first
resolve_thresh_no_wipe(aset, st, isv6) ==
    IF st.notdown < aset.up_thresh
    THEN [rv |-> [st.rv EXCEPT !.down = TRUE],
          result |-> IF ~aset.ignore_health
                     THEN add_all(st.result, aset, aset.count)
                     ELSE st.result]
    ELSE [rv |-> [st.rv EXCEPT !.down = FALSE], result |-> st.result]

\* C2 mutant: the threshold comparison is <= instead of <
resolve_thresh_le(aset, st, isv6) ==
    IF st.notdown <= aset.up_thresh
    THEN [rv |-> [st.rv EXCEPT !.down = TRUE],
          result |-> IF ~aset.ignore_health
                     THEN add_all(IF isv6 THEN gdnsd_result_wipe_v6(st.result)
                                          ELSE gdnsd_result_wipe_v4(st.result),
                                  aset, aset.count)
                     ELSE st.result]
    ELSE [rv |-> [st.rv EXCEPT !.down = FALSE], result |-> st.result]

\* C3 mutant: with ignore_health the threshold check leaves rv as the loop folded it
resolve_thresh_raw(aset, st, isv6) ==
    IF aset.ignore_health THEN [rv |-> st.rv, result |-> st.result]
    ELSE IF st.notdown < aset.up_thresh
    THEN [rv |-> [st.rv EXCEPT !.down = TRUE],
          result |-> add_all(IF isv6 THEN gdnsd_result_wipe_v6(st.result)
                                     ELSE gdnsd_result_wipe_v4(st.result),
                             aset, aset.count)]
    ELSE [rv |-> [st.rv EXCEPT !.down = FALSE], result |-> st.result]

\* the threshold check after the loop
resolve_thresh(aset, st, isv6) ==
    IF st.notdown < aset.up_thresh
    THEN [rv |-> [st.rv EXCEPT !.down = TRUE],
          result |-> IF ~aset.ignore_health
                     THEN add_all(IF isv6 THEN gdnsd_result_wipe_v6(st.result)
                                          ELSE gdnsd_result_wipe_v4(st.result),
                                  aset, aset.count)
                     ELSE st.result]
    ELSE [rv |-> [st.rv EXCEPT !.down = FALSE], result |-> st.result]

\* resolve(): [rv, result]
resolve(sttl_tbl, aset, result, isv6) ==
    resolve_thresh(aset, resolve_loop(sttl_tbl, aset, ResolveStart(result), aset.count), isv6)

\* C5 mutant: the v6 set is resolved with isv6 = false, so its fail-open wipes v4
multifo_resolve_wrong_family(res, sttl_tbl, result) ==
    IF res.aset_v4.present
    THEN LET r4 == resolve(sttl_tbl, res.aset_v4, result, FALSE) IN
         IF res.aset_v6.present
         THEN LET r6 == resolve(sttl_tbl, res.aset_v6, r4.result, FALSE) IN
              [rv |-> gdnsd_sttl_min2(r4.rv, r6.rv), v4_rv |-> r4.rv, v6_rv |-> r6.rv,
               result |-> r6.result]
         ELSE [rv |-> r4.rv, v4_rv |-> r4.rv, v6_rv |-> Sttl(FALSE, 0), result |-> r4.result]
    ELSE LET r6 == resolve(sttl_tbl, res.aset_v6, result, TRUE) IN
         [rv |-> r6.rv, v4_rv |-> Sttl(FALSE, 0), v6_rv |-> r6.rv, result |-> r6.result]

\* the body of plugin_multifo_resolve: v4, then v6 into the same result
multifo_resolve(res, sttl_tbl, result) ==
    IF res.aset_v4.present
    THEN LET r4 == resolve(sttl_tbl, res.aset_v4, result, FALSE) IN
         IF res.aset_v6.present
         THEN LET r6 == resolve(sttl_tbl, res.aset_v6, r4.result, TRUE) IN
              [rv |-> gdnsd_sttl_min2(r4.rv, r6.rv), v4_rv |-> r4.rv, v6_rv |-> r6.rv,
               result |-> r6.result]
         ELSE [rv |-> r4.rv, v4_rv |-> r4.rv, v6_rv |-> Sttl(FALSE, 0), result |-> r4.result]
    ELSE LET r6 == resolve(sttl_tbl, res.aset_v6, result, TRUE) IN
         [rv |-> r6.rv, v4_rv |-> Sttl(FALSE, 0), v6_rv |-> r6.rv, result |-> r6.result]

\* the state+TTL values a monitor index can hold in the model
SttlVals == {Sttl(FALSE, 30), Sttl(TRUE, 20), Sttl(FALSE, 10)}

\* gdnsd_mon_get_sttl_table(): any table over the registered monitor indices
SttlTables == [0..(num_mons - 1) -> SttlVals]

\* plugin_multifo_resolve(resnum, cinfo, result), result empty on entry
plugin_multifo_resolve(resnum) ==
    /\ phase = "loaded"
    /\ ~call.made
    /\ \E sttl_tbl \in SttlTables :
         LET r == multifo_resolve(resources[resnum + 1], sttl_tbl, EmptyResult) IN
         call' = [made |-> TRUE, resnum |-> resnum, sttl_tbl |-> sttl_tbl,
                  result |-> r.result, rv |-> r.rv, v4_rv |-> r.v4_rv, v6_rv |-> r.v6_rv]
    /\ UNCHANGED <<config, phase, resources, residx, v4_max, v6_max, num_mons, dyn_addr_max>>
    /\ UNCHANGED <<cvars, avars>>

\* the query layer takes the answer and resets its per-call result buffer
result_reset ==
    /\ call.made
    /\ call' = NoCall
    /\ UNCHANGED <<config, phase, resources, residx, v4_max, v6_max, num_mons, dyn_addr_max>>
    /\ UNCHANGED <<cvars, avars>>

----------------------------------------------------------------------------
\* Resolve while the monitor updates its table

\* the state+TTL values the monitor writes while calls run
RaceVals == {Sttl(FALSE, 30), Sttl(TRUE, 20)}

\* the monitor has set up its table for the registered monitor indices
Published == DOMAIN mon_sttl_tbl = 0..(num_mons - 1)

\* the monitor sets up its table once the configuration is loaded
mon_start ==
    /\ phase = "loaded"
    /\ ~Published
    /\ mon_sttl_tbl' \in [0..(num_mons - 1) -> RaceVals]
    /\ UNCHANGED <<config, phase, resources, residx, v4_max, v6_max, num_mons, dyn_addr_max,
                   call, thr>>
    /\ UNCHANGED avars

\* the monitor stores a new state+TTL value for one monitor index, in place
mon_update ==
    /\ phase = "loaded"
    /\ Published
    /\ \E idx \in 0..(num_mons - 1), v \in RaceVals :
         /\ v # mon_sttl_tbl[idx]
         /\ mon_sttl_tbl' = [mon_sttl_tbl EXCEPT ![idx] = v]
    /\ UNCHANGED <<config, phase, resources, residx, v4_max, v6_max, num_mons, dyn_addr_max,
                   call, thr>>
    /\ UNCHANGED avars

\* the address set the call in progress is resolving
ThrAset ==
    IF thr.isv6 THEN resources[thr.resnum + 1].aset_v6 ELSE resources[thr.resnum + 1].aset_v4

\* plugin_multifo_resolve is entered: the table pointer is taken, resolve() starts on
\* the first set of the resource; rd is what this call has fetched, by monitor index,
\* and tbl0 the table as it was on entry
resolve_begin(resnum) ==
    /\ phase = "loaded"
    /\ Published
    /\ thr.pc = "idle"
    /\ ~call.made
    /\ thr' = [pc |-> "loop", resnum |-> resnum,
               isv6 |-> ~resources[resnum + 1].aset_v4.present,
               i |-> 1, k |-> 1, st |-> ResolveStart(EmptyResult),
               v4_rv |-> Sttl(FALSE, 0), rd |-> <<>>, tbl0 |-> mon_sttl_tbl]
    /\ UNCHANGED <<config, phase, resources, residx, v4_max, v6_max, num_mons, dyn_addr_max,
                   call, mon_sttl_tbl>>
    /\ UNCHANGED avars

\* gdnsd_sttl_min fetches the table value at the entry's next monitor index
resolve_fetch ==
    /\ thr.pc = "loop"
    /\ thr.i <= ThrAset.count
    /\ thr.k <= ThrAset.num_svcs
    /\ LET idx == ThrAset.as[thr.i].indices[thr.k] IN
       thr' = [thr EXCEPT !.rd = (idx :> mon_sttl_tbl[idx]) @@ @, !.k = @ + 1]
    /\ UNCHANGED <<config, phase, resources, residx, v4_max, v6_max, num_mons, dyn_addr_max,
                   call, mon_sttl_tbl>>
    /\ UNCHANGED avars

\* C12 mutant: the entry's state is fetched again when it is decided
resolve_entry_reread ==
    /\ thr.pc = "loop"
    /\ thr.i <= ThrAset.count
    /\ thr.k > ThrAset.num_svcs
    /\ thr' = [thr EXCEPT !.st = resolve_iter(mon_sttl_tbl, ThrAset, thr.st, thr.i),
                          !.i = @ + 1, !.k = 1]
    /\ UNCHANGED <<config, phase, resources, residx, v4_max, v6_max, num_mons, dyn_addr_max,
                   call, mon_sttl_tbl>>
    /\ UNCHANGED avars

\* the rest of the loop iteration, from the values fetched for the entry
resolve_entry ==
    /\ thr.pc = "loop"
    /\ thr.i <= ThrAset.count
    /\ thr.k > ThrAset.num_svcs
    /\ thr' = [thr EXCEPT !.st = resolve_iter(thr.rd, ThrAset, thr.st, thr.i),
                          !.i = @ + 1, !.k = 1]
    /\ UNCHANGED <<config, phase, resources, residx, v4_max, v6_max, num_mons, dyn_addr_max,
                   call, mon_sttl_tbl>>
    /\ UNCHANGED avars

\* resolve() returns for the v4 set and is called for the v6 set, same result
resolve_v6_next ==
    /\ thr.pc = "loop"
    /\ thr.i > ThrAset.count
    /\ ~thr.isv6
    /\ resources[thr.resnum + 1].aset_v6.present
    /\ LET r == resolve_thresh(ThrAset, thr.st, thr.isv6) IN
       thr' = [thr EXCEPT !.isv6 = TRUE, !.i = 1, !.k = 1,
                          !.st = ResolveStart(r.result), !.v4_rv = r.rv]
    /\ UNCHANGED <<config, phase, resources, residx, v4_max, v6_max, num_mons, dyn_addr_max,
                   call, mon_sttl_tbl>>
    /\ UNCHANGED avars

\* resolve() returns for the last set and plugin_multifo_resolve returns
resolve_return ==
    /\ thr.pc = "loop"
    /\ thr.i > ThrAset.count
    /\ thr.isv6 \/ ~resources[thr.resnum + 1].aset_v6.present
    /\ LET r == resolve_thresh(ThrAset, thr.st, thr.isv6)
           both == thr.isv6 /\ resources[thr.resnum + 1].aset_v4.present
       IN call' = [made |-> TRUE, resnum |-> thr.resnum, sttl_tbl |-> thr.rd,
                   result |-> r.result,
                   rv |-> IF both THEN gdnsd_sttl_min2(thr.v4_rv, r.rv) ELSE r.rv,
                   v4_rv |-> IF thr.isv6 THEN thr.v4_rv ELSE r.rv,
                   v6_rv |-> IF thr.isv6 THEN r.rv ELSE Sttl(FALSE, 0),
                   tbl0 |-> thr.tbl0]
    /\ thr' = NoThread
    /\ UNCHANGED <<config, phase, resources, residx, v4_max, v6_max, num_mons, dyn_addr_max,
                   mon_sttl_tbl>>
    /\ UNCHANGED avars

----------------------------------------------------------------------------
\* The configurations the model loads

\* n addresses of one family, "1".."n" => address
GoodAddrs(form, n) == [i \in 1..n |-> AddrText(form, i)]

OtherForm(form) == IF form = "dotted" THEN "colon" ELSE "dotted"

\* address lists of up to 3 entries with one entry that addr_setup rejects
BadAddrs(form) ==
    {[GoodAddrs(form, n) EXCEPT ![k] = bad] :
        n \in 1..3, k \in 1..3,
        bad \in {AddrText("junk", 0), AddrText(OtherForm(form), 9), NonSimpleAddr}}
    \ {<<>>}

BadAddrsOf(form) == {a \in BadAddrs(form) : TRUE}

Params(up_thresh, ignore_health, service_types) ==
    [up_thresh |-> up_thresh, ignore_health |-> ignore_health, service_types |-> service_types]

DefaultParams == Params(Absent, Absent, NoSvcTypes)

TwoSvcs == SvcTypes(<<"up", "http">>)

StanzaOf(addrs, p) == Stanza(addrs, p.up_thresh, p.ignore_health, p.service_types)

\* the resource given directly as label => address entries
DirectRes(addrs, p) == ResOpts("res", NoStanza, NoStanza, StanzaOf(addrs, p))

\* the resource given as addrs_v4 / addrs_v6 sub-hashes; `other` are further keys
SplitRes(v4, v6, other) == ResOpts("res", v4, v6, Stanza(other, Absent, Absent, NoSvcTypes))

\* the parameters of the configurations resolve is run on
ResolveParams ==
    {Params(t, h, s) :
        t \in {Absent, Given("0.25"), Given("0.75"), Given("1.0")},
        h \in {Absent, Given("true")},
        s \in {NoSvcTypes, SvcTypes(<<>>), TwoSvcs}}

SingleRes(shape, n, p) ==
    CASE shape = "direct4" -> DirectRes(GoodAddrs("dotted", n), p)
      [] shape = "direct6" -> DirectRes(GoodAddrs("colon", n), p)
      [] shape = "v4"      -> SplitRes(SubStanza(StanzaOf(GoodAddrs("dotted", n), p)), NoStanza, <<>>)
      [] OTHER             -> SplitRes(NoStanza, SubStanza(StanzaOf(GoodAddrs("colon", n), p)), <<>>)

DualRes(n4, n6, p) ==
    SplitRes(SubStanza(StanzaOf(GoodAddrs("dotted", n4), p)),
             SubStanza(StanzaOf(GoodAddrs("colon", n6), p)), <<>>)

ResolveConfigs ==
    {<<SingleRes(shape, n, p)>> :
        shape \in {"direct4", "direct6", "v4", "v6"}, n \in 1..MaxAddrs, p \in ResolveParams}
    \cup {<<DualRes(n4, n6, p)>> :
            n4 \in 1..MaxAddrs, n6 \in 1..MaxAddrs,
            p \in {q \in ResolveParams : q.service_types # TwoSvcs}}
    \cup {<<SingleRes("v4", n, DefaultParams), DualRes(1, 1, p)>> :
            n \in 1..2, p \in {DefaultParams, Params(Given("1.0"), Given("true"), NoSvcTypes)}}
    \cup {<<SingleRes("direct4", 2, DefaultParams), DirectRes(a, DefaultParams)>> :
            a \in BadAddrsOf("colon")}

\* the parameters of the configurations only load is run on
LoadParams ==
    {Params(t, h, s) :
        t \in {Absent, Given("0.125"), Given("0.25"), Given("0.5"), Given("0.75"), Given("1.0"),
               Given("0.0"), Given("-0.5"), Given("1.25"), Given("half")},
        h \in {Absent, Given("true"), Given("false"), Given("maybe")},
        s \in {NoSvcTypes, SvcTypes(<<>>), TwoSvcs}}

FewParams ==
    {DefaultParams, Params(Given("1.0"), Given("true"), TwoSvcs),
     Params(Given("1.25"), Absent, NoSvcTypes), Params(Absent, Given("maybe"), NoSvcTypes)}

LoadResources ==
    {SingleRes(shape, n, p) :
        shape \in {"direct4", "direct6", "v4", "v6"}, n \in 0..MaxLoadAddrs, p \in LoadParams}
    \cup {DirectRes(a, p) : a \in BadAddrsOf("dotted") \cup BadAddrsOf("colon"), p \in FewParams}
    \cup {SplitRes(SubStanza(StanzaOf(a, p)), NoStanza, <<>>) : a \in BadAddrsOf("dotted"), p \in FewParams}
    \cup {SplitRes(NoStanza, SubStanza(StanzaOf(a, p)), <<>>) : a \in BadAddrsOf("colon"), p \in FewParams}
    \cup {SplitRes(SubStanza(StanzaOf(GoodAddrs("dotted", n4), p)),
                   SubStanza(StanzaOf(GoodAddrs("colon", n6), p)), other) :
            n4 \in 0..2, n6 \in 0..2, p \in FewParams,
            other \in {<<>>, <<AddrText("dotted", 7)>>}}
    \cup {SplitRes(SubStanza(StanzaOf(GoodAddrs("dotted", n), p)), NoStanza, <<AddrText("junk", 0)>>) :
            n \in 1..2, p \in FewParams}

\* a second resource after or before the one of interest
SmallResources ==
    {SingleRes("direct4", 2, DefaultParams), DualRes(1, 3, DefaultParams),
     SingleRes("v6", 0, DefaultParams), DirectRes(<<AddrText("junk", 0)>>, DefaultParams),
     SplitRes(SubStanza(StanzaOf(GoodAddrs("colon", 1), DefaultParams)), NoStanza, <<>>),
     SplitRes(SubStanza(StanzaOf(GoodAddrs("dotted", 1), DefaultParams)), NoStanza,
              <<AddrText("dotted", 7)>>),
     SingleRes("v4", 1, Params(Given("0.0"), Absent, NoSvcTypes)),
     SingleRes("v4", 1, Params(Absent, Given("maybe"), NoSvcTypes))}

LoadConfigs ==
    {<<>>}
    \cup {<<r>> : r \in LoadResources}
    \cup {<<r1, r2>> : r1 \in SmallResources, r2 \in SmallResources}

----------------------------------------------------------------------------
\* Specifications of the plugin

ArenaIdle == arenas = <<>> /\ heap = <<>> /\ regions = {} /\ frees = 0

MInit(configs) ==
    /\ config \in configs
    /\ phase = "start"
    /\ resources = <<>>
    /\ residx = 0
    /\ v4_max = 0
    /\ v6_max = 0
    /\ num_mons = 0
    /\ dyn_addr_max = NotReported
    /\ call = NoCall
    /\ CIdle
    /\ ArenaIdle

Init == MInit(ResolveConfigs)

Next ==
    \/ plugin_multifo_load_config
    \/ config_res_step
    \/ load_config_done
    \/ \E resnum \in 0..(Len(resources) - 1) : plugin_multifo_resolve(resnum)
    \/ result_reset

Spec == Init /\ [][Next]_vars

LoadInit == MInit(LoadConfigs)

LoadNext ==
    \/ plugin_multifo_load_config
    \/ config_res_step
    \/ load_config_done

SpecLoad == LoadInit /\ [][LoadNext]_vars

\* the parameters of the configurations resolved while the monitor runs
RaceParams ==
    {Params(t, h, s) :
        t \in {Absent, Given("1.0")},
        h \in {Absent, Given("true")},
        s \in {NoSvcTypes, SvcTypes(<<>>), TwoSvcs}}

\* one set of up to MaxRaceAddrs entries (two services: up to 2 entries), or a v4 set
\* of one entry with a v6 set of up to MaxRaceAddrs
RaceConfigs ==
    {<<SingleRes("v4", n, p)>> :
        n \in 1..MaxRaceAddrs, p \in {q \in RaceParams : q.service_types # TwoSvcs}}
    \cup {<<SingleRes("v4", n, p)>> :
            n \in 1..2, p \in {q \in RaceParams : q.service_types = TwoSvcs}}
    \cup {<<DualRes(1, n6, p)>> :
            n6 \in 1..MaxRaceAddrs, p \in {q \in RaceParams : q.service_types # TwoSvcs}}

RaceInit == MInit(RaceConfigs)

\* load, then one resolve call at a time on this thread, the monitor running beside it
RaceNext ==
    \/ plugin_multifo_load_config
    \/ config_res_step
    \/ load_config_done
    \/ mon_start
    \/ mon_update
    \/ \E resnum \in 0..(Len(resources) - 1) : resolve_begin(resnum)
    \/ resolve_fetch
    \/ resolve_entry
    \/ resolve_v6_next
    \/ resolve_return
    \/ result_reset

SpecRace == RaceInit /\ [][RaceNext]_vars

----------------------------------------------------------------------------
\* What a resolve call is expected to leave, stated from the health-state table

\* an entry's own combined state is down when any of its monitors is down
EntryDown(sttl_tbl, aset, i) ==
    \E k \in 1..aset.num_svcs : sttl_tbl[aset.as[i].indices[k]].down

NotDownCount(sttl_tbl, aset) ==
    Cardinality({i \in 1..aset.count : ~EntryDown(sttl_tbl, aset, i)})

FullList(aset) == [i \in 1..aset.count |-> aset.as[i].addr]

NotDownList(sttl_tbl, aset) ==
    LET up == SelectSeq([i \in 1..aset.count |-> i],
                        LAMBDA i : ~EntryDown(sttl_tbl, aset, i))
    IN [j \in 1..Len(up) |-> aset.as[up[j]].addr]

CalledRes == resources[call.resnum + 1]

\* the evaluations of the last call: the set, what the sink holds for its family, its rv
Evaluations ==
    (IF CalledRes.aset_v4.present
     THEN {[aset |-> CalledRes.aset_v4, sink |-> call.result.v4, rv |-> call.v4_rv]}
     ELSE {})
    \cup
    (IF CalledRes.aset_v6.present
     THEN {[aset |-> CalledRes.aset_v6, sink |-> call.result.v6, rv |-> call.v6_rv]}
     ELSE {})

\* C1: fail-open. With ignore_health false and fewer not-down entries than up_thresh,
\* the evaluation returns down and the sink holds, for that family, the full entry
\* list: each entry's address once, in set order.
C1_FailOpen ==
    call.made =>
        \A e \in Evaluations :
            (~e.aset.ignore_health /\ NotDownCount(call.sttl_tbl, e.aset) < e.aset.up_thresh)
            => (e.rv.down /\ e.sink = FullList(e.aset))

C1_Witness ==
    /\ call.made
    /\ \E e \in Evaluations :
         /\ ~e.aset.ignore_health
         /\ NotDownCount(call.sttl_tbl, e.aset) < e.aset.up_thresh
         /\ NotDownCount(call.sttl_tbl, e.aset) > 0
         /\ e.rv.down
         /\ e.sink = FullList(e.aset)

\* C2: threshold met. With ignore_health false and at least up_thresh not-down
\* entries (equality included), the evaluation returns not down and the sink holds
\* exactly the not-down entries' addresses, in set order.
C2_ThresholdMet ==
    call.made =>
        \A e \in Evaluations :
            (~e.aset.ignore_health /\ NotDownCount(call.sttl_tbl, e.aset) >= e.aset.up_thresh)
            => (~e.rv.down /\ e.sink = NotDownList(call.sttl_tbl, e.aset))

C2_Witness ==
    /\ call.made
    /\ \E e \in Evaluations :
         /\ ~e.aset.ignore_health
         /\ NotDownCount(call.sttl_tbl, e.aset) = e.aset.up_thresh
         /\ NotDownCount(call.sttl_tbl, e.aset) < e.aset.count
         /\ ~e.rv.down
         /\ Len(e.sink) = e.aset.up_thresh

\* C3 as claimed: with ignore_health true the returned down flag is the raw folding
\* of the entries' states, down exactly when some entry is down.
C3_RawFolding ==
    call.made =>
        \A e \in Evaluations :
            e.aset.ignore_health
            => (e.rv.down <=> \E i \in 1..e.aset.count : EntryDown(call.sttl_tbl, e.aset, i))

\* C3 amended: with ignore_health true the threshold check decides the returned down
\* flag as it does without ignore_health: down exactly when fewer than up_thresh
\* entries are not down.
C3_ThresholdDecides ==
    call.made =>
        \A e \in Evaluations :
            e.aset.ignore_health
            => (e.rv.down <=> NotDownCount(call.sttl_tbl, e.aset) < e.aset.up_thresh)

C3_Witness ==
    /\ call.made
    /\ \E e \in Evaluations :
         /\ e.aset.ignore_health
         /\ \E i \in 1..e.aset.count : EntryDown(call.sttl_tbl, e.aset, i)
         /\ NotDownCount(call.sttl_tbl, e.aset) >= e.aset.up_thresh
         /\ ~e.rv.down

\* C4: with ignore_health true the sink holds, for that family, the full entry list,
\* each address once in set order, whatever the health states are.
C4_IgnoreHealthKeepsAll ==
    call.made =>
        \A e \in Evaluations :
            e.aset.ignore_health => e.sink = FullList(e.aset)

C4_Witness ==
    /\ call.made
    /\ \E e \in Evaluations :
         /\ e.aset.ignore_health
         /\ e.aset.count > 1
         /\ NotDownCount(call.sttl_tbl, e.aset) < e.aset.up_thresh
         /\ e.sink = FullList(e.aset)

\* C5: for a resource with both sets, the returned value is down if either family's
\* value is down and carries the smaller TTL, and the sink holds what v4's evaluation
\* alone leaves for v4 and what v6's evaluation alone leaves for v6.
C5_DualStack ==
    (call.made /\ CalledRes.aset_v4.present /\ CalledRes.aset_v6.present) =>
        LET alone4 == resolve(call.sttl_tbl, CalledRes.aset_v4, EmptyResult, FALSE)
            alone6 == resolve(call.sttl_tbl, CalledRes.aset_v6, EmptyResult, TRUE)
        IN /\ call.rv.down = (alone4.rv.down \/ alone6.rv.down)
           /\ call.rv.ttl = IF alone4.rv.ttl < alone6.rv.ttl THEN alone4.rv.ttl ELSE alone6.rv.ttl
           /\ call.result.v4 = alone4.result.v4
           /\ call.result.v6 = alone6.result.v6
           /\ alone4.result.v6 = <<>>
           /\ alone6.result.v4 = <<>>

C5_Witness ==
    /\ call.made
    /\ CalledRes.aset_v4.present
    /\ CalledRes.aset_v6.present
    /\ ~CalledRes.aset_v4.ignore_health
    /\ NotDownCount(call.sttl_tbl, CalledRes.aset_v4) >= CalledRes.aset_v4.up_thresh
    /\ NotDownCount(call.sttl_tbl, CalledRes.aset_v4) < CalledRes.aset_v4.count
    /\ NotDownCount(call.sttl_tbl, CalledRes.aset_v6) < CalledRes.aset_v6.up_thresh
    /\ NotDownCount(call.sttl_tbl, CalledRes.aset_v6) > 0
    /\ call.rv.down
    /\ call.result.v4 = NotDownList(call.sttl_tbl, CalledRes.aset_v4)
    /\ call.result.v6 = FullList(CalledRes.aset_v6)

----------------------------------------------------------------------------
\* Load: what a configuration is expected to produce, stated from the configuration

\* the addrs hash a loaded set was built from
StanzaFor(opts, v6) ==
    IF opts.addrs_v4.present \/ opts.addrs_v6.present
    THEN (IF v6 THEN opts.addrs_v6.cfg ELSE opts.addrs_v4.cfg)
    ELSE opts.direct

\* the configured fraction of an addrs hash, 0.5 when none is configured
FractionOf(cfg) ==
    IF cfg.up_thresh.present THEN vscf_simple_get_as_double(cfg.up_thresh.text)
    ELSE [ok |-> TRUE, num |-> 1, den |-> 2]

\* k = ceil(count * num/den): the least integer not below the product
IsCeilOf(k, count, f) == k * f.den >= count * f.num /\ (k - 1) * f.den < count * f.num

\* the address sets loaded so far, each with the addrs hash it came from
LoadedSets ==
    {[aset |-> resources[r].aset_v4, cfg |-> StanzaFor(config[r], FALSE)] :
        r \in {q \in 1..Len(resources) : resources[q].aset_v4.present}}
    \cup
    {[aset |-> resources[r].aset_v6, cfg |-> StanzaFor(config[r], TRUE)] :
        r \in {q \in 1..Len(resources) : resources[q].aset_v6.present}}

\* C6: every loaded address set has count >= 1 and 1 <= up_thresh <= count, with
\* up_thresh = ceil(count * fraction) for the configured fraction (default 0.5); an
\* exact product is not rounded up (count 4 gives 2, count 10 gives 5 at 0.5).
C6_UpThreshRange ==
    \A s \in LoadedSets :
        /\ s.aset.count >= 1
        /\ s.aset.count = Len(s.cfg.addrs)
        /\ 1 <= s.aset.up_thresh
        /\ s.aset.up_thresh <= s.aset.count
        /\ IsCeilOf(s.aset.up_thresh, s.aset.count, FractionOf(s.cfg))
        /\ (FractionOf(s.cfg).num * 2 = FractionOf(s.cfg).den /\ s.aset.count = 4)
           => s.aset.up_thresh = 2
        /\ (FractionOf(s.cfg).num * 2 = FractionOf(s.cfg).den /\ s.aset.count = 10)
           => s.aset.up_thresh = 5

C6_Witness ==
    /\ phase = "loaded"
    /\ \E s \in LoadedSets :
         /\ ~s.cfg.up_thresh.present
         /\ s.aset.count = 10
         /\ s.aset.up_thresh = 5
    /\ dyn_addr_max.called

\* the configuration errors of one addrs hash whose family is known (form) or is
\* taken from its first address
StanzaDefect(cfg, form) ==
    \/ Len(cfg.addrs) = 0
    \/ \E i \in 1..Len(cfg.addrs) :
         cfg.addrs[i].simple /\ cfg.addrs[i].form \notin {"dotted", "colon"}
    \/ \E i \in 1..Len(cfg.addrs) : cfg.addrs[i].simple /\ cfg.addrs[i].form # form
    \/ /\ cfg.up_thresh.present
       /\ cfg.up_thresh.text \in {"0.0", "-0.5", "1.25"}
    \/ /\ cfg.ignore_health.present
       /\ cfg.ignore_health.text \notin {"true", "false"}

ResDefect(opts) ==
    IF opts.addrs_v4.present \/ opts.addrs_v6.present
    THEN \/ opts.addrs_v4.present /\ StanzaDefect(opts.addrs_v4.cfg, "dotted")
         \/ opts.addrs_v6.present /\ StanzaDefect(opts.addrs_v6.cfg, "colon")
         \/ Len(opts.direct.addrs) > 0
    ELSE \/ Len(opts.direct.addrs) = 0
         \/ StanzaDefect(opts.direct, opts.direct.addrs[1].form)

\* C9: load is all-or-nothing. When some resource of the configuration has an empty
\* address list, an unparsable address, an address of the wrong family, an unknown
\* key beside addrs_v4/addrs_v6, an up_thresh outside (0.0, 1.0] or a non-boolean
\* ignore_health, load never gets past that resource: it ends fatal, the maxima are
\* not reported and resolve is never given the table.
C9_LoadAllOrNothing ==
    (\E r \in 1..Len(config) : ResDefect(config[r])) =>
        /\ phase # "loaded"
        /\ ~dyn_addr_max.called
        /\ ~call.made
        /\ phase = "loading" => \A r \in 1..residx : ~ResDefect(config[r])
        /\ \A r \in 1..Len(resources) : ~ResDefect(config[r])

C9_Witness ==
    /\ phase = "fatal"
    /\ Len(config) = 2
    /\ ~ResDefect(config[1])
    /\ ResDefect(config[2])
    /\ Len(resources) = 1
    /\ ~dyn_addr_max.called

----------------------------------------------------------------------------
\* ltarena

MAX_OBJ == 256
POOL_SIZE == 1024
INIT_POOLS_ALLOC == 4

\* an indeterminate pool pointer: a table slot xmalloc_n or xrealloc_n left unwritten
Junk == <<0, 0>>

\* the k-th pool arena a obtained from xcalloc
PoolPtr(a, k) == <<a, k>>

\* p points at a pool xcalloc returned
IsPool(h, p) == p[1] \in DOMAIN h /\ p[2] \in 1..Len(h[p[1]])

ArenaIds == 1..MaxArenas

\* pools is the table as allocated (Len(pools) slots); stray is what lies in memory
\* just past its end, in slots Len(pools), Len(pools) + 1, ... that were written out
\* of bounds; oob records that some table access was made at an index not below the
\* allocated length
NoArena == [st |-> "none", pools |-> <<>>, pool |-> 0, poffs |-> 0, palloc |-> 0,
            closed |-> FALSE, into |-> 0, stray |-> <<>>, oob |-> FALSE]

\* what lta->pools[i] reads, for every slot the arena has written
Table(lta) == lta.pools \o lta.stray

\* what a write past the end of a heap block can lead to: the bytes written stay as
\* written, they are overwritten by the block's neighbour, or the process is aborted
UBOutcomes == {"stored", "clobbered", "crashed"}

\* xcalloc(POOL_SIZE) by arena a: a fresh zeroed pool
NewPool(a) == [st |-> "live", by |-> a, zeroed |-> TRUE, nfree |-> 0]

\* xrealloc_n(pools, n): the first slots kept, slots gained indeterminate
Realloc(pools, n) == [i \in 1..n |-> IF i <= Len(pools) THEN pools[i] ELSE Junk]

\* lta_new, giving handle a
lta_new(a) ==
    /\ arenas[a].st = "none"
    /\ heap' = [heap EXCEPT ![a] = Append(@, NewPool(a))]
    /\ arenas' = [arenas EXCEPT ![a] =
                    [st |-> "live",
                     pools |-> [Realloc(<<>>, INIT_POOLS_ALLOC) EXCEPT
                                  ![1] = PoolPtr(a, Len(heap[a]) + 1)],
                     pool |-> 0, poffs |-> 0, palloc |-> INIT_POOLS_ALLOC,
                     closed |-> FALSE, into |-> 0, stray |-> <<>>, oob |-> FALSE]]
    /\ UNCHANGED <<regions, frees>>
    /\ UNCHANGED mvars

\* lta_close
lta_close(a) ==
    /\ arenas[a].st = "live"
    /\ ~arenas[a].closed
    /\ arenas' = [arenas EXCEPT ![a].pools = Realloc(@, arenas[a].pool + 1),
                                ![a].closed = TRUE]
    /\ UNCHANGED <<heap, regions, frees>>
    /\ UNCHANGED mvars

\* free(p) on heap h with fr invalid frees so far
Free(h, fr, p) ==
    IF IsPool(h, p) /\ h[p[1]][p[2]].st = "live"
    THEN [heap |-> [h EXCEPT ![p[1]][p[2]].st = "freed", ![p[1]][p[2]].nfree = @ + 1],
          frees |-> fr]
    ELSE [heap |-> h, frees |-> fr + 1]

\* while (whichp--) free(lta->pools[whichp]): slots n..1 freed, highest first
RECURSIVE FreePools(_, _, _, _)
FreePools(h, fr, pools, n) ==
    IF n = 0 THEN [heap |-> h, frees |-> fr]
    ELSE LET f == Free(h, fr, pools[n]) IN FreePools(f.heap, f.frees, pools, n - 1)

\* lta_destroy
lta_destroy(a) ==
    /\ arenas[a].st = "live"
    /\ LET f == FreePools(heap, frees, Table(arenas[a]), arenas[a].pool + 1) IN
       /\ heap' = f.heap
       /\ frees' = f.frees
    /\ arenas' = [arenas EXCEPT ![a].st = "destroyed", ![a].pools = <<>>,
                                ![a].stray = <<>>,
                                ![a].oob = @ \/ arenas[a].pool + 1 > Len(arenas[a].pools)]
    /\ UNCHANGED regions
    /\ UNCHANGED mvars

\* do { palloc <<= 1 } while (new_pool_count >= palloc)
RECURSIVE Doubled(_, _)
Doubled(palloc, new_pool_count) ==
    IF new_pool_count >= palloc * 2 THEN Doubled(palloc * 2, new_pool_count) ELSE palloc * 2

\* C8 mutant: the source's pools are copied after the target's current pool
lta_merge_after_current(target, source) ==
    /\ target # source
    /\ arenas[target].st = "live"
    /\ arenas[source].st = "live"
    /\ LET t == arenas[target]
           s == arenas[source]
           target_last_pool == t.pools[t.pool + 1]
           source_pool_count == s.pool + 1
           new_pool_count == source_pool_count + t.pool + 1
           palloc == IF new_pool_count >= t.palloc THEN Doubled(t.palloc, new_pool_count)
                     ELSE t.palloc
           grown == IF new_pool_count >= t.palloc THEN Realloc(t.pools, palloc) ELSE t.pools
           copied == [i \in 1..Len(grown) |->
                        IF i - 1 > t.pool /\ i - 1 <= t.pool + source_pool_count
                        THEN s.pools[i - 1 - t.pool] ELSE grown[i]]
           pool == t.pool + s.pool + 1
       IN arenas' = [arenas EXCEPT
                       ![target].palloc = palloc,
                       ![target].pool = pool,
                       ![target].pools = [i \in 1..Len(copied) |->
                                            IF i = pool + 1 THEN target_last_pool ELSE copied[i]],
                       ![source] = [NoArena EXCEPT !.st = "merged", !.into = target]]
    /\ UNCHANGED <<heap, regions, frees>>
    /\ UNCHANGED mvars

\* C10 mutant: the table grows only while the combined count exceeds it
lta_merge_tight(target, source) ==
    /\ target # source
    /\ arenas[target].st = "live"
    /\ arenas[source].st = "live"
    /\ LET t == arenas[target]
           s == arenas[source]
           target_last_pool == t.pools[t.pool + 1]
           source_pool_count == s.pool + 1
           new_pool_count == source_pool_count + t.pool + 1
           palloc == IF new_pool_count > t.palloc THEN Doubled(t.palloc, new_pool_count - 1)
                     ELSE t.palloc
           grown == IF new_pool_count > t.palloc THEN Realloc(t.pools, palloc) ELSE t.pools
           copied == [i \in 1..Len(grown) |->
                        IF i - 1 >= t.pool /\ i - 1 < t.pool + source_pool_count
                        THEN s.pools[i - t.pool] ELSE grown[i]]
           pool == t.pool + s.pool + 1
       IN arenas' = [arenas EXCEPT
                       ![target].palloc = palloc,
                       ![target].pool = pool,
                       ![target].pools = [i \in 1..Len(copied) |->
                                            IF i = pool + 1 THEN target_last_pool ELSE copied[i]],
                       ![source] = [NoArena EXCEPT !.st = "merged", !.into = target]]
    /\ UNCHANGED <<heap, regions, frees>>
    /\ UNCHANGED mvars

\* lta_merge; a slot index not below the table's allocated length is undefined
\* behaviour, with one of UBOutcomes
lta_merge(target, source) ==
    /\ target # source
    /\ arenas[target].st = "live"
    /\ arenas[source].st = "live"
    /\ LET t == arenas[target]
           s == arenas[source]
           target_last_pool == Table(t)[t.pool + 1]
           source_pool_count == s.pool + 1
           new_pool_count == source_pool_count + t.pool + 1
           grow == new_pool_count >= t.palloc
           palloc == IF grow THEN Doubled(t.palloc, new_pool_count) ELSE t.palloc
           \* xrealloc_n keeps the slots of the old block only
           grown == IF grow THEN Realloc(t.pools, palloc) ELSE t.pools
           mem == IF grow THEN grown ELSE Table(t)
           pool == t.pool + s.pool + 1
           \* memcpy(&target->pools[target->pool], source->pools, source_pool_count),
           \* then target->pools[target->pool] = target_last_pool
           written == [i \in 1..Max(Len(mem), pool + 1) |->
                         IF i = pool + 1 THEN target_last_pool
                         ELSE IF i - 1 >= t.pool /\ i - 1 < t.pool + source_pool_count
                         THEN Table(s)[i - t.pool]
                         ELSE IF i <= Len(mem) THEN mem[i] ELSE Junk]
           past == pool + 1 > Len(grown)
           oob == \/ past
                  \/ t.pool + 1 > Len(t.pools)
                  \/ source_pool_count > Len(s.pools)
       IN \E outcome \in (IF past THEN UBOutcomes ELSE {"stored"}) :
            arenas' = [arenas EXCEPT
                         ![target].st = IF outcome = "crashed" THEN "crashed" ELSE "live",
                         ![target].palloc = palloc,
                         ![target].pool = pool,
                         ![target].pools = SubSeq(written, 1, Len(grown)),
                         ![target].stray =
                             [i \in 1..(Len(written) - Len(grown)) |->
                                IF outcome = "stored" THEN written[Len(grown) + i] ELSE Junk],
                         ![target].oob = t.oob \/ s.oob \/ oob,
                         \* free(source->pools); free(source): the pools themselves stay
                         ![source] = [NoArena EXCEPT !.st = "merged", !.into = target]]
    /\ UNCHANGED <<heap, regions, frees>>
    /\ UNCHANGED mvars

\* the bytes [off, off + len) of two regions of one pool meet
Overlap(r1, r2) ==
    r1.pool = r2.pool /\ r1.off < r2.off + r2.len /\ r2.off < r1.off + r1.len

\* what lta_malloc hands out: pool pools[pool], bytes [off, off + len), asked for `size`;
\* zero unless the pool was not zeroed or a region returned before covers some byte
Region(a, h, pools, pool, off, len, size) ==
    LET r == [n |-> Cardinality({q \in regions : q.arena = a}) + 1, arena |-> a,
              pool |-> pools[pool + 1],
              off |-> off, len |-> len, size |-> size]
    IN [n |-> r.n, arena |-> a, pool |-> r.pool, off |-> off, len |-> len, size |-> size,
        zero |-> /\ IsPool(h, r.pool)
                 /\ h[r.pool[1]][r.pool[2]].zeroed
                 /\ \A q \in regions : ~Overlap(q, r)]

\* C7 mutant: the pool switch does not reset poffs
lta_malloc_no_reset(a, size) ==
    /\ arenas[a].st = "live"
    /\ LET lta == arenas[a]
           switch == lta.poffs + size > POOL_SIZE
           pool == IF switch THEN lta.pool + 1 ELSE lta.pool
           grow == switch /\ pool = lta.palloc
           palloc == IF grow THEN lta.palloc * 2 ELSE lta.palloc
           grown == IF grow THEN Realloc(lta.pools, palloc) ELSE lta.pools
           pools == IF switch THEN [grown EXCEPT ![pool + 1] = PoolPtr(a, Len(heap[a]) + 1)]
                    ELSE grown
           h == IF switch THEN [heap EXCEPT ![a] = Append(@, NewPool(a))] ELSE heap
           poffs == lta.poffs
       IN /\ heap' = h
          /\ arenas' = [arenas EXCEPT ![a].pools = pools, ![a].pool = pool,
                                      ![a].palloc = palloc, ![a].poffs = poffs + size]
          /\ regions' = regions \cup {Region(a, h, pools, pool, poffs, size, size)}
    /\ UNCHANGED frees
    /\ UNCHANGED mvars

\* lta_malloc(lta, size)
lta_malloc(a, size) ==
    /\ arenas[a].st = "live"
    /\ LET lta == arenas[a]
           switch == lta.poffs + size > POOL_SIZE
           pool == IF switch THEN lta.pool + 1 ELSE lta.pool
           grow == switch /\ pool = lta.palloc
           palloc == IF grow THEN lta.palloc * 2 ELSE lta.palloc
           grown == IF grow THEN Realloc(lta.pools, palloc) ELSE lta.pools
           pools == IF switch THEN [grown EXCEPT ![pool + 1] = PoolPtr(a, Len(heap[a]) + 1)]
                    ELSE grown
           h == IF switch THEN [heap EXCEPT ![a] = Append(@, NewPool(a))] ELSE heap
           poffs == IF switch THEN 0 ELSE lta.poffs
       IN /\ heap' = h
          /\ arenas' = [arenas EXCEPT ![a].pools = pools, ![a].pool = pool,
                                      ![a].palloc = palloc, ![a].poffs = poffs + size]
          /\ regions' = regions \cup {Region(a, h, pools, pool, poffs, size, size)}
    /\ UNCHANGED frees
    /\ UNCHANGED mvars

\* the sizes the callers ask for: the largest object, and two smaller ones
Sizes == {1, 100, MAX_OBJ}

\* the callers' discipline: sizes in [1, MAX_OBJ], and no lta_malloc after lta_close
MayMalloc(a, size) ==
    /\ arenas[a].st = "live"
    /\ ~arenas[a].closed
    /\ size >= 1 /\ size <= MAX_OBJ

\* the calls explored on the one arena of SpecMalloc
MallocBudget(size) ==
    /\ Cardinality(regions) < MaxAllocs
    /\ size # MAX_OBJ => Cardinality({r \in regions : r.size # MAX_OBJ}) < MaxOdd

\* the calls explored where arenas are merged: a smaller object only as an arena's first
MergeBudget(a, size) ==
    /\ Cardinality(regions) < MaxMergeAllocs
    /\ size # MAX_OBJ => (size = 100 /\ \A r \in regions : r.arena # a)

\* the calls explored where one arena is merged into another
PairBudget(a, size) ==
    /\ Cardinality(regions) < MaxPairAllocs
    /\ size # MAX_OBJ => (size = 100 /\ \A r \in regions : r.arena # a)

\* the callers' discipline: a closed arena's table is immutable, so the merge target
\* is an arena still being built
MayMerge(target, source) == arenas[target].st = "live" /\ ~arenas[target].closed

MIdle ==
    /\ config = <<>>
    /\ phase = "start"
    /\ resources = <<>>
    /\ residx = 0
    /\ v4_max = 0
    /\ v6_max = 0
    /\ num_mons = 0
    /\ dyn_addr_max = NotReported
    /\ call = NoCall
    /\ CIdle

ArenaInit ==
    /\ arenas = [a \in ArenaIds |-> NoArena]
    /\ heap = [a \in ArenaIds |-> <<>>]
    /\ regions = {}
    /\ frees = 0
    /\ MIdle

\* handles are taken in order
MayNew(a) == \A b \in ArenaIds : b < a => arenas[b].st # "none"

ArenaNext ==
    \/ \E a \in ArenaIds : MayNew(a) /\ lta_new(a)
    \/ \E a \in ArenaIds, size \in Sizes :
         MayMalloc(a, size) /\ MergeBudget(a, size) /\ lta_malloc(a, size)
    \/ \E a \in ArenaIds : lta_close(a)
    \/ \E t \in ArenaIds, s \in ArenaIds : MayMerge(t, s) /\ lta_merge(t, s)
    \/ \E a \in ArenaIds : lta_destroy(a)

SpecArena == ArenaInit /\ [][ArenaNext]_vars

\* two arenas, filled and then one merged into the other
PairNext ==
    \/ \E a \in {1, 2} : MayNew(a) /\ lta_new(a)
    \/ \E a \in {1, 2}, size \in Sizes :
         MayMalloc(a, size) /\ PairBudget(a, size) /\ lta_malloc(a, size)
    \/ \E a \in {1, 2} : lta_close(a)
    \/ \E t \in {1, 2}, s \in {1, 2} : MayMerge(t, s) /\ lta_merge(t, s)

SpecPair == ArenaInit /\ [][PairNext]_vars

\* one arena, from lta_new to lta_destroy
MallocNext ==
    \/ lta_new(1)
    \/ \E size \in Sizes : MayMalloc(1, size) /\ MallocBudget(size) /\ lta_malloc(1, size)
    \/ lta_close(1)
    \/ lta_destroy(1)

SpecMalloc == ArenaInit /\ [][MallocNext]_vars

\* the process has not been aborted
Running == \A a \in ArenaIds : arenas[a].st # "crashed"

\* any sequence of lta_new, lta_malloc (before lta_close), lta_close and lta_merge,
\* the merge target closed or not
ClosedNext ==
    \/ \E a \in ArenaIds : Running /\ MayNew(a) /\ lta_new(a)
    \/ \E a \in ArenaIds, size \in Sizes :
         Running /\ MayMalloc(a, size) /\ MergeBudget(a, size) /\ lta_malloc(a, size)
    \/ \E a \in ArenaIds : Running /\ lta_close(a)
    \/ \E t \in ArenaIds, s \in ArenaIds : Running /\ lta_merge(t, s)

SpecClosed == ArenaInit /\ [][ClosedNext]_vars

----------------------------------------------------------------------------
\* ltarena: the claims

\* the pools an arena lists: slots 0..pool of its table
Used(a) == SubSeq(arenas[a].pools, 1, arenas[a].pool + 1)

\* the arena that now owns what arena a allocated
RECURSIVE Owner(_)
Owner(a) == IF arenas[a].st = "merged" THEN Owner(arenas[a].into) ELSE a

PoolOf(p) == heap[p[1]][p[2]]

\* C7: every region lta_malloc returned is exactly the requested size (1..256), lies
\* wholly inside one pool, is disjoint from every other returned region and was
\* zero-filled when returned, across pool switches and growth of the pool table.
C7_RegionsDisjoint ==
    \A r \in regions :
        /\ r.size >= 1 /\ r.size <= MAX_OBJ
        /\ r.len = r.size
        /\ IsPool(heap, r.pool)
        /\ r.off >= 0 /\ r.off + r.len <= POOL_SIZE
        /\ r.zero
        /\ arenas[Owner(r.arena)].st = "live" => PoolOf(r.pool).st = "live"
        /\ \A q \in regions : q # r => ~Overlap(q, r)

C7_Witness ==
    /\ arenas[1].st = "live"
    /\ arenas[1].pool = INIT_POOLS_ALLOC
    /\ arenas[1].palloc = 2 * INIT_POOLS_ALLOC
    /\ Len(arenas[1].pools) = 2 * INIT_POOLS_ALLOC
    /\ \E r \in regions : r.pool = arenas[1].pools[INIT_POOLS_ALLOC + 1] /\ r.off > 0
    /\ \E r \in regions : r.size < MAX_OBJ /\ r.off > 0
    /\ C7_RegionsDisjoint

\* C8: after lta_merge(A, B) every region A or B returned lies in a live pool listed
\* (once) in A's table, and lta_destroy(A) frees every pool of A and of B exactly
\* once: no free of a pool already freed or of a pointer that is no pool, none left.
C8_MergeKeepsPools ==
    /\ frees = 0
    /\ \A r \in regions :
         LET o == Owner(r.arena) IN
         arenas[o].st = "live" =>
            /\ PoolOf(r.pool).st = "live"
            /\ \E i \in 1..(arenas[o].pool + 1) : arenas[o].pools[i] = r.pool
    /\ \A a \in ArenaIds :
         arenas[a].st = "live" =>
            \A i \in 1..(arenas[a].pool + 1) : \A j \in 1..(arenas[a].pool + 1) :
                i # j => arenas[a].pools[i] # arenas[a].pools[j]
    /\ \A a \in ArenaIds : \A k \in 1..Len(heap[a]) :
         LET o == Owner(a) IN
         /\ heap[a][k].nfree <= 1
         /\ arenas[o].st = "live" =>
               /\ heap[a][k].st = "live"
               /\ \E i \in 1..(arenas[o].pool + 1) : arenas[o].pools[i] = PoolPtr(a, k)
         /\ arenas[o].st = "destroyed" => (heap[a][k].st = "freed" /\ heap[a][k].nfree = 1)

C8_Witness ==
    \E a \in ArenaIds, b \in ArenaIds :
        /\ arenas[b].st = "merged"
        /\ arenas[b].into = a
        /\ arenas[a].st = "destroyed"
        /\ Len(heap[a]) > 1
        /\ Len(heap[b]) > 1
        /\ \E r \in regions : r.arena = a /\ r.pool = PoolPtr(a, 2)
        /\ \E r \in regions : r.arena = b /\ r.pool = PoolPtr(b, 2)
        /\ \A k \in 1..Len(heap[a]) : heap[a][k].nfree = 1
        /\ \A k \in 1..Len(heap[b]) : heap[b][k].nfree = 1
        /\ frees = 0

\* this step is lta_merge(t, s)
MergeStep(t, s) ==
    arenas[s].st = "live" /\ arenas'[s].st = "merged" /\ arenas'[s].into = t

\* C10 as claimed: the merged sequence is the target's pools up to and including its
\* current pool, then the source's pools, the source's in-progress pool last.
C10_SourcePoolLast ==
    [][\A t \in ArenaIds, s \in ArenaIds :
         MergeStep(t, s) => Used(t)' = Used(t) \o Used(s)]_vars

\* C10 amended: the merged sequence is the target's pools before its current pool,
\* then all of the source's pools in order, then the target's own in-progress pool,
\* which stays the current pool with poffs unchanged; the table is doubled while the
\* combined count is not below its capacity, so it ends larger than the count.
C10_TargetPoolLast ==
    [][\A t \in ArenaIds, s \in ArenaIds :
         MergeStep(t, s) =>
            LET count == arenas[t].pool + 1 + arenas[s].pool + 1 IN
            /\ Used(t)' = SubSeq(arenas[t].pools, 1, arenas[t].pool) \o Used(s)
                            \o <<arenas[t].pools[arenas[t].pool + 1]>>
            /\ arenas'[t].pool + 1 = count
            /\ arenas'[t].poffs = arenas[t].poffs
            /\ arenas'[t].palloc > count
            /\ Len(arenas'[t].pools) > count
            /\ IF count < arenas[t].palloc
               THEN arenas'[t].palloc = arenas[t].palloc
               ELSE /\ \E k \in 1..count : arenas'[t].palloc = arenas[t].palloc * (2 ^ k)
                    /\ arenas'[t].palloc <= 2 * count
                    /\ Len(arenas'[t].pools) = arenas'[t].palloc]_vars

C10_Witness ==
    \E t \in ArenaIds, s \in ArenaIds :
        /\ arenas[s].st = "merged"
        /\ arenas[s].into = t
        /\ arenas[t].st = "live"
        /\ arenas[t].palloc = 4 * INIT_POOLS_ALLOC
        /\ arenas[t].pool + 1 = 2 * INIT_POOLS_ALLOC
        /\ Len(heap[t]) < INIT_POOLS_ALLOC
        /\ arenas[t].poffs > 0
        /\ arenas[t].pools[arenas[t].pool + 1][1] = t
        /\ arenas[t].pools[arenas[t].pool][1] = s

\* C11: every pool-pointer-table slot an arena writes or reads has an index below the
\* table's allocated length, and so has its current pool, under any sequence of
\* lta_new, lta_malloc (before close), lta_close and lta_merge, a merge into a closed
\* target (table trimmed to pool + 1 slots, palloc left as it was) included.
C11_TableAccessInBounds ==
    \A a \in ArenaIds :
        /\ ~arenas[a].oob
        /\ arenas[a].st = "live" => arenas[a].pool + 1 <= Len(arenas[a].pools)

----------------------------------------------------------------------------
\* Resolve beside the monitor: the claim

\* C12: under any interleaving of the monitor's table updates with a running call,
\* each entry's state is read once and that reading decides both its count toward
\* notdown and whether its address is appended: for every set with ignore_health
\* false the call ends with either the full entry list and down, or the addresses of
\* the entries read not-down in this call, at least up_thresh of them, and not down.
\* The answer is never empty and the call returns a valid state+TTL, never an error.
C12_ReadOnceDecides ==
    call.made =>
        /\ \A e \in Evaluations :
              /\ e.sink # <<>>
              /\ ~e.aset.ignore_health =>
                    \/ /\ e.rv.down
                       /\ e.sink = FullList(e.aset)
                       /\ NotDownCount(call.sttl_tbl, e.aset) < e.aset.up_thresh
                    \/ /\ ~e.rv.down
                       /\ e.sink = NotDownList(call.sttl_tbl, e.aset)
                       /\ Len(e.sink) >= e.aset.up_thresh
        /\ call.rv.down \in BOOLEAN
        /\ call.rv.down = \E e \in Evaluations : e.rv.down
        /\ call.rv.ttl \in 0..GDNSD_STTL_TTL_MAX

\* a call whose answer fits neither the table as it was on entry nor as it is on return
C12_Witness ==
    /\ call.made
    /\ Published
    /\ \E e \in Evaluations :
         /\ ~e.aset.ignore_health
         /\ e.aset.count > 1
         /\ ~e.rv.down
         /\ Len(e.sink) < e.aset.count
         /\ e.sink = NotDownList(call.sttl_tbl, e.aset)
         /\ NotDownList(call.tbl0, e.aset) # e.sink
         /\ NotDownList(mon_sttl_tbl, e.aset) # e.sink
         /\ NotDownCount(mon_sttl_tbl, e.aset) < e.aset.up_thresh

====
